---- MODULE Spec2Model ----
(***************************************************************************)
(* Model of src/file/express.js: the /transcode and /extract-audio         *)
(* handlers, their temp files, the ffmpeg child process, the deadline      *)
(* timer and the callbacks registered on the child process.                *)
(*                                                                         *)
(* One JavaScript event-loop turn (a request handler up to its return, a   *)
(* timer callback, an 'error' or 'close' listener) is one atomic action.   *)
(* The child process, the clock and the arrival of requests are the        *)
(* environment.                                                            *)
(***************************************************************************)
EXTENDS Integers, Sequences, FiniteSets, TLC

\* ---- bounds of the model ------------------------------------------------
MaxTime == 1
\* Chunks a pipe of the child holds before a write of the child blocks.
PipeCap == 1          \* Date.now() ranges over 0..MaxTime
NumSuffix == 2        \* size of the range of the random suffix (10000 in the code)

\* The requests of a run: one request alone (Spec), or two requests that may
\* be in flight together (PairSpec).
SoloJobs == {1}
PairJobs == {1, 2}
Suffixes == 0..(NumSuffix - 1)

\* ---- inputs ---------------------------------------------------------------
\* An original filename is the sequence of its dot-separated pieces.
\* The empty sequence stands for a file object without originalname (undefined).
OriginalNames == {<<"clip", "mov">>, <<"my", "clip", "avi">>, <<"clip">>, << >>}
\* A rejected promise of an async route handler: Express 4 leaves it unhandled,
\* which Node ignores with a warning or dies of, depending on its version;
\* Express 5 answers it through the default error handler.
RejectionResults == {"ignored", "crash", "errorhandler"}
\* req.file.buffer: two uploads of different bytes, and the one upload of a
\* run that serves a single request.
Buffers == {"b1", "b2"}
SoloBuffers == {"b1"}
\* req.body.quality; "" stands for a missing field (undefined is falsy too).
\* "constructor" is a selector that names a member every object inherits.
Qualities ==
    {"240p", "360p", "480p", "720p", "1080p", "1440p", "custom", "constructor", ""}
\* req.body.format of /extract-audio; "" stands for a missing field.
AudioFormats == {"mp3", "WAV", "ogg", "flac", ""}
\* Exit codes the encoder may choose by itself.
ExitCodes == {"0", "1"}
\* The code 'close' carries when the child died from a signal.
NullCode == "null"
\* The (negative) code 'close' carries after a failed spawn (UV_ENOENT).
SpawnErrCode == "-2"
\* spawn(): the child runs, or the spawn fails and 'error' is emitted on the
\* next tick, or spawn throws synchronously.
SpawnResults == {"ok", "enoent", "throw"}
\* The temp files of a job whose fs.unlinkSync the file system refuses
\* (EPERM, EBUSY): the input, the output, both or none.
FailSets == SUBSET {"in", "out"}
NoFails == {{}}
\* spawn without a stdio option: stdout and stderr of the child are pipes.
Streams == {"stdout", "stderr"}
\* No listener is attached to any stream of the child.
Listeners_None == {}
\* ff.stderr.on('data', ..) is the only 'data' listener the handlers attach.
Listeners == {"stderr"}
EmptyPipes == [s \in Streams |-> 0]

TranscodeRequests ==
    [hasFile : BOOLEAN, originalname : OriginalNames, buffer : SoloBuffers,
     quality : Qualities]
AudioRequests ==
    [hasFile : BOOLEAN, originalname : OriginalNames, buffer : SoloBuffers,
     format : AudioFormats]
\* The requests of PairSpec: the same upload under the same name, sent twice or
\* with different bytes, and no body field.
PairTranscodeRequests ==
    [hasFile : {TRUE}, originalname : {<<"clip", "mov">>}, buffer : Buffers,
     quality : {""}]
PairAudioRequests ==
    [hasFile : {TRUE}, originalname : {<<"clip", "mov">>}, buffer : Buffers,
     format : {""}]

VARIABLES
    now,        \* Date.now()
    fs,         \* os.tmpdir(): a function from the existing paths to contents
    crashed,    \* the server process died from an uncaught exception
    job         \* per request: the handler's locals, child process and response

vars == <<now, fs, crashed, job>>

\* ---- values ---------------------------------------------------------------
NoPath == [pre |-> "", t |-> 0, r |-> 0, ext |-> ""]
NoBytes == [data |-> "", enc |-> 0]

\* The Express response object: what matters is which methods it has.
Response == [status |-> "fn", type |-> "fn", send |-> "fn"]
NoRes == [none |-> "none"]
HasMethod(obj, m) == m \in DOMAIN obj
\* res.status(..).send(..) / res.type(..); res.send(..) need these methods.
IsResponse(obj) ==
    HasMethod(obj, "status") /\ HasMethod(obj, "type") /\ HasMethod(obj, "send")

InitJob ==
    [kind |-> "none", file |-> FALSE, inputPath |-> NoPath, outName |-> <<>>, outPath |-> NoPath,
     fsFails |-> {}, format |-> "", selector |-> "", args |-> <<>>, res |-> NoRes, timedOut |-> FALSE, timeout |-> "none",
     ff |-> "none", code |-> "", fileData |-> NoBytes, sent |-> <<>>,
     listeners |-> {}, pipe |-> EmptyPipes, blocked |-> "none", lost |-> {},
     logged |-> FALSE, outcome |-> "none", hist |-> <<>>]

\* ---- the file system ------------------------------------------------------
\* fs.writeFileSync(p, c): creates or overwrites.
WriteFile(f, p, c) == [q \in (DOMAIN f) \cup {p} |-> IF q = p THEN c ELSE f[q]]
\* try { fs.unlinkSync(p) } catch(e){} : removes p if present, else nothing.
Unlink(f, p) == [q \in (DOMAIN f) \ {p} |-> f[q]]
Exists(f, p) == p \in DOMAIN f

\* `${pre}-${Date.now()}-${Math.floor(Math.random()*10000)}.${ext}` in tmpdir
TempName(pre, t, r, ext) == [pre |-> pre, t |-> t, r |-> r, ext |-> ext]

writeTempFile(f, buffer, ext, t, r) ==
    LET filePath == TempName("upload", t, r, ext)
    IN  [path |-> filePath, fs |-> WriteFile(f, filePath, [data |-> buffer, enc |-> 0])]

\* (originalname || 'input').split('.').pop()
InputExt(name) == IF name = << >> THEN "input" ELSE name[Len(name)]
\* path.parse(undefined) throws a TypeError
PathParseThrows(name) == name = << >>
\* path.parse(originalname).name
Stem(name) == IF Len(name) = 1 THEN name ELSE SubSeq(name, 1, Len(name) - 1)
\* `${path.parse(originalname).name}.${format}`
OutName(name, format) == Stem(name) \o <<format>>
\* String.prototype.toLowerCase on the strings of the model
ToLowerCase(s) == CASE s = "WAV" -> "wav" [] s = "MP3" -> "mp3" [] OTHER -> s

\* ---- the quality table ----------------------------------------------------
resMap ==
    [q \in {"240p", "360p", "480p", "720p", "1080p", "1440p"} |->
        CASE q = "240p"  -> [h |-> 240,  br |-> "400k"]
          [] q = "360p"  -> [h |-> 360,  br |-> "800k"]
          [] q = "480p"  -> [h |-> 480,  br |-> "1500k"]
          [] q = "720p"  -> [h |-> 720,  br |-> "3000k"]
          [] q = "1080p" -> [h |-> 1080, br |-> "5000k"]
          [] q = "1440p" -> [h |-> 1440, br |-> "8000k"]]

\* req.body.quality || '720p'
Quality(q) == IF q = "" THEN "720p" ELSE q
\* resMap is an object literal: a key it does not own is looked up on
\* Object.prototype, whose members (constructor, toString, ...) are truthy
\* and have neither h nor br.
InheritedKeys == {"constructor", "toString", "valueOf", "hasOwnProperty", "__proto__"}
InheritedMember == [inherited |-> "Object.prototype"]
\* const res = resMap[quality] || resMap['720p']   (line 87, inside the try block)
TranscodeRes(quality) ==
    IF quality \in DOMAIN resMap THEN resMap[quality]
    ELSE IF quality \in InheritedKeys THEN InheritedMember
    ELSE resMap["720p"]

\* ---- the argument vector ---------------------------------------------------
\* An argument is a literal string, a template with one inserted value, or a
\* path.
Arg(s) == [s |-> s, v |-> "", p |-> NoPath]
PathArg(p) == [s |-> "", v |-> "", p |-> p]
\* Number to string, as a template literal or string concatenation does it.
Str(n) ==
    CASE n = 240 -> "240" [] n = 360 -> "360" [] n = 480 -> "480"
      [] n = 720 -> "720" [] n = 1080 -> "1080" [] n = 1440 -> "1440"
\* `scale=-2:${res.h}`: a missing property reads as undefined
ScaleArg(res) ==
    [s |-> "scale=-2:", v |-> IF "h" \in DOMAIN res THEN Str(res.h) ELSE "undefined",
     p |-> NoPath]
\* res.br
BitrateArg(res) == IF "br" \in DOMAIN res THEN Arg(res.br) ELSE Arg("undefined")
\* lines 76-93
TranscodeArgs(inputPath, res, outPath) ==
    <<Arg("-y"), Arg("-i"), PathArg(inputPath),
      Arg("-vf"), ScaleArg(res),
      Arg("-b:v"), BitrateArg(res),
      Arg("-c:v"), Arg("libx264"), Arg("-preset"), Arg("medium"),
      Arg("-c:a"), Arg("aac"), Arg("-b:a"), Arg("128k"),
      PathArg(outPath)>>
\* AudioArgs with the ogg branch copied from the mp3 branch, quality kept at 2
AudioArgs_OggQuality(format, inputPath, outPath) ==
    LET args == <<Arg("-y"), Arg("-i"), PathArg(inputPath), Arg("-vn")>>
    IN  IF format = "mp3"
        THEN args \o <<Arg("-acodec"), Arg("libmp3lame"), Arg("-q:a"), Arg("2"),
                       PathArg(outPath)>>
        ELSE IF format = "wav"
        THEN args \o <<Arg("-acodec"), Arg("pcm_s16le"), Arg("-ar"), Arg("44100"),
                       Arg("-ac"), Arg("2"), PathArg(outPath)>>
        ELSE IF format = "ogg"
        THEN args \o <<Arg("-acodec"), Arg("libvorbis"), Arg("-q:a"), Arg("2"),
                       PathArg(outPath)>>
        ELSE args \o <<Arg("-c:a"), Arg("copy"), PathArg(outPath)>>
\* lines 153-157
AudioArgs(format, inputPath, outPath) ==
    LET args == <<Arg("-y"), Arg("-i"), PathArg(inputPath), Arg("-vn")>>
    IN  IF format = "mp3"
        THEN args \o <<Arg("-acodec"), Arg("libmp3lame"), Arg("-q:a"), Arg("2"),
                       PathArg(outPath)>>
        ELSE IF format = "wav"
        THEN args \o <<Arg("-acodec"), Arg("pcm_s16le"), Arg("-ar"), Arg("44100"),
                       Arg("-ac"), Arg("2"), PathArg(outPath)>>
        ELSE IF format = "ogg"
        THEN args \o <<Arg("-acodec"), Arg("libvorbis"), Arg("-q:a"), Arg("5"),
                       PathArg(outPath)>>
        ELSE args \o <<Arg("-c:a"), Arg("copy"), PathArg(outPath)>>

\* ---- results sent on the response ------------------------------------------
\* No handler sets a header other than the content type: a result carries no
\* file name (outName is computed and never used).
NoName == << >>
Result(status, ctype, msg, code, bytes) ==
    [status |-> status, ctype |-> ctype, msg |-> msg, code |-> code, bytes |-> bytes,
     filename |-> NoName]
TextHtml == <<"text", "html">>
NoFileResult == Result(400, TextHtml, "No file uploaded", "", NoBytes)
TimedOutResult ==
    Result(500, TextHtml, "Transcoding timed out (took more than 5 minutes)", "", NoBytes)
FFmpegErrorResult(code) == Result(500, TextHtml, "FFmpeg error code ", code, NoBytes)
ReadErrorResult == Result(500, TextHtml, "Error reading output file", "", NoBytes)
TranscodeFailedResult == Result(500, TextHtml, "Transcoding failed.", "", NoBytes)
AudioErrorResult(code) ==
    Result(500, TextHtml, "Audio extraction failed (ffmpeg error code ", code, NoBytes)
AudioFailedResult == Result(500, TextHtml, "Audio extraction failed.", "", NoBytes)
\* The answer of Express 5's default error handler to a rejected handler.
ErrorHandlerResult == Result(500, TextHtml, "Internal Server Error", "", NoBytes)
VideoResult(fileData) == Result(200, <<"video", "mp4">>, "", "", fileData)
AudioResult(format, fileData) == Result(200, <<"audio", format>>, "", "", fileData)

\* ---- steps of a callback ---------------------------------------------------
\* The running callback's view: the file system, what was sent, the history,
\* and whether an exception is propagating out of the callback.
Ctx(jb, f) ==
    [fs |-> f, sent |-> jb.sent, hist |-> jb.hist, fileData |-> jb.fileData,
     threw |-> FALSE]
\* const fileData = fs.readFileSync(outPath)
readFileSync(c, p) == [c EXCEPT !.fileData = c.fs[p], !.hist = Append(@, "read")]
Note(c, ev) == [c EXCEPT !.hist = Append(@, ev)]
\* try { fs.unlinkSync(p); } catch(e){} : a refused unlink throws into the
\* empty catch and leaves the file.
unlinkSync(c, p, ev, fail) ==
    [c EXCEPT !.fs = IF fail THEN @ ELSE Unlink(@, p), !.hist = Append(@, ev)]
\* res.status(..).send(..), or res.type(..); res.send(..): a TypeError when the
\* object bound to `res` has no such method.
Send(c, res, result) ==
    IF IsResponse(res)
    THEN [c EXCEPT !.sent = Append(@, result), !.hist = Append(@, "send")]
    ELSE [c EXCEPT !.threw = TRUE, !.hist = Append(@, "throw")]

\* ---- app.post('/transcode') -----------------------------------------------
\* line 63: if (!req.file) return res.status(400).send('No file uploaded')
TranscodeNoFile(jb, f) ==
    LET c == Send(Ctx(jb, f), Response, NoFileResult)
    IN  [fs |-> f, threw |-> c.threw,
         job |-> [jb EXCEPT !.kind = "transcode", !.sent = c.sent,
                            !.hist = c.hist, !.outcome = "NoInput"]]

\* The exception of line 71 or 149 leaves the async handler, outside any try:
\* nothing is released; the promise of the handler is rejected.
HandlerRejected(jb1, f1, rej) ==
    LET c0 == Note(Ctx(jb1, f1), "reject")
        c1 == IF rej = "errorhandler" THEN Send(c0, Response, ErrorHandlerResult) ELSE c0
    IN  [fs |-> c1.fs, threw |-> rej = "crash",
         job |-> [jb1 EXCEPT !.sent = c1.sent, !.hist = c1.hist,
                             !.outcome = "Rejected"]]

\* lines 64-140
TranscodeStaged(jb, f, req, t1, r1, t2, r2, sp, rej, fails) ==
    LET format == "mp4"
        quality == Quality(req.quality)
        inputExt == InputExt(req.originalname)
        staged == writeTempFile(f, req.buffer, inputExt, t1, r1)
        inputPath == staged.path
        jb0 == [jb EXCEPT !.kind = "transcode", !.file = req.hasFile,
                          !.inputPath = inputPath, !.selector = req.quality,
                          !.hist = Append(@, "stage")]
    IN  IF PathParseThrows(req.originalname)
        THEN HandlerRejected(jb0, staged.fs, rej)
        ELSE
        LET outName == OutName(req.originalname, format)
            outPath == TempName("out", t2, r2, format)
            res == TranscodeRes(quality)
            args == TranscodeArgs(inputPath, res, outPath)
            jb1 == [jb0 EXCEPT !.outName = outName, !.outPath = outPath,
                               !.format = format, !.args = args]
        IN  IF sp = "throw"
            THEN \* catch (err) of line 135: outside the try block, so `res`
                 \* is the response object again
                 LET c0 == Note(Ctx(jb1, staged.fs), "spawnthrow")
                     c1 == unlinkSync(c0, inputPath, "unlinkIn", "in" \in fails)
                     c2 == unlinkSync(c1, outPath, "unlinkOut", "out" \in fails)
                     c3 == Send(c2, Response, TranscodeFailedResult)
                 IN  [fs |-> c3.fs, threw |-> c3.threw,
                      job |-> [jb1 EXCEPT !.sent = c3.sent, !.hist = c3.hist,
                                          !.fsFails = fails,
                                          !.outcome = "SpawnThrow"]]
            ELSE [fs |-> staged.fs, threw |-> FALSE,
                  job |-> [jb1 EXCEPT !.res = res,
                                      !.ff = IF sp = "ok" THEN "running" ELSE "enoent",
                                      !.listeners = Listeners,
                                      !.timedOut = FALSE,
                                      !.timeout = "armed",
                                      !.hist = Append(@, "spawn")]]

\* The handler without the guard of line 63
TranscodeHandler_NoGuard(jb, f, req, t1, r1, t2, r2, sp, rej, fails) ==
    TranscodeStaged(jb, f, req, t1, r1, t2, r2, sp, rej, fails)
\* The handler from its entry to its return: guard, staging, output name and
\* path, the shadowing `res`, spawn, the timer and the listeners.
TranscodeHandler(jb, f, req, t1, r1, t2, r2, sp, rej, fails) ==
    IF ~req.hasFile
    THEN TranscodeNoFile(jb, f)
    ELSE TranscodeStaged(jb, f, req, t1, r1, t2, r2, sp, rej, fails)

Transcode(j, Requests, Fails) ==
    /\ ~crashed
    /\ job[j].kind = "none"
    /\ \E req \in Requests, r1 \in Suffixes, r2 \in Suffixes,
          t2 \in now..MaxTime, sp \in SpawnResults, rej \in RejectionResults,
          fails \in Fails :
          LET out == TranscodeHandler(job[j], fs, req, now, r1, t2, r2, sp, rej, fails)
          IN  /\ job' = [job EXCEPT ![j] = out.job]
              /\ fs' = out.fs
              /\ crashed' = out.threw
              /\ now' = t2

\* A timer callback that also releases the input while the encoder runs.
TimeoutCallback_Release(j) ==
    /\ ~crashed
    /\ job[j].timeout = "armed"
    /\ job[j].ff # "enoent"
    /\ job' = [job EXCEPT ![j] =
                 [@ EXCEPT !.timedOut = TRUE,
                           !.timeout = "fired",
                           !.ff = IF @ = "running" THEN "signalled" ELSE @,
                           !.hist = Append(Append(@, "timer"), "unlinkIn")]]
    /\ fs' = Unlink(fs, job[j].inputPath)
    /\ UNCHANGED <<now, crashed>>

\* setTimeout callback (lines 99-103): timedOut = true; ff.kill().
\* ff.kill() sends SIGTERM to a child that is still running and does nothing
\* otherwise. A failed spawn emits 'error' on the next tick, before any timer.
TimeoutCallback(j) ==
    /\ ~crashed
    /\ job[j].timeout = "armed"
    /\ job[j].ff # "enoent"
    /\ job' = [job EXCEPT ![j] =
                 [@ EXCEPT !.timedOut = TRUE,
                           !.timeout = "fired",
                           !.ff = IF @ = "running" THEN "signalled" ELSE @,
                           !.hist = Append(@, "timer")]]
    /\ UNCHANGED <<now, fs, crashed>>

\* A clearTimeout that leaves the timer armed.
ClearTimeout_Noop(t) == t
\* clearTimeout(timeout)
ClearTimeout(t) == IF t = "armed" THEN "cleared" ELSE t

\* ff.on('error') (lines 106-109 and 161): the spawn failed. The transcode
\* listener clears the timer; both only log. 'close' follows with the
\* negative spawn error code.
OnError(j) ==
    /\ ~crashed
    /\ job[j].ff = "enoent"
    /\ job' = [job EXCEPT ![j] =
                 [@ EXCEPT !.timeout = IF job[j].kind = "transcode"
                                       THEN ClearTimeout(@) ELSE @,
                           !.ff = "exited",
                           !.code = SpawnErrCode,
                           !.hist = Append(@, "error")]]
    /\ UNCHANGED <<now, fs, crashed>>

\* ff.on('close') of /transcode (lines 111-134)
TranscodeClose(jb, f, fails) ==
    LET res == jb.res
        c == Note(Ctx(jb, f), "close")
    IN  IF jb.timedOut
        THEN [ctx |-> Send(unlinkSync(c, jb.inputPath, "unlinkIn", "in" \in fails), res, TimedOutResult),
              outcome |-> "TimedOut"]
        ELSE IF jb.code # "0"
        THEN [ctx |-> Send(unlinkSync(c, jb.inputPath, "unlinkIn", "in" \in fails), res,
                           FFmpegErrorResult(jb.code)),
              outcome |-> "ExitNonZero"]
        ELSE IF ~Exists(f, jb.outPath)
        THEN \* fs.readFileSync throws; catch (err) of line 130
             [ctx |-> Send(Note(c, "readfail"), res, ReadErrorResult),
              outcome |-> "ReadError"]
        ELSE LET fileData == c.fs[jb.outPath]
                 c1 == readFileSync(c, jb.outPath)
                 c2 == Send(c1, res, VideoResult(fileData))
             IN  IF c2.threw
                 THEN \* res.type threw inside the try: catch (err) of line 130
                      [ctx |-> Send([c2 EXCEPT !.threw = FALSE], res, ReadErrorResult),
                       outcome |-> "Completed"]
                 ELSE [ctx |-> unlinkSync(unlinkSync(c2, jb.inputPath, "unlinkIn", "in" \in fails),
                                          jb.outPath, "unlinkOut", "out" \in fails),
                       outcome |-> "Completed"]

\* ---- app.post('/extract-audio') ---------------------------------------------
\* line 145
ExtractAudioNoFile(jb, f) ==
    LET c == Send(Ctx(jb, f), Response, NoFileResult)
    IN  [fs |-> f, threw |-> c.threw,
         job |-> [jb EXCEPT !.kind = "audio", !.sent = c.sent,
                            !.hist = c.hist, !.outcome = "NoInput"]]

\* lines 146-179
ExtractAudioStaged(jb, f, req, t1, r1, t2, r2, sp, rej, fails) ==
    LET format == ToLowerCase(IF req.format = "" THEN "mp3" ELSE req.format)
        inputExt == InputExt(req.originalname)
        staged == writeTempFile(f, req.buffer, inputExt, t1, r1)
        inputPath == staged.path
        jb0 == [jb EXCEPT !.kind = "audio", !.file = req.hasFile,
                          !.inputPath = inputPath, !.selector = req.format,
                          !.format = format,
                          !.hist = Append(@, "stage")]
    IN  IF PathParseThrows(req.originalname)
        THEN HandlerRejected(jb0, staged.fs, rej)
        ELSE
        LET outName == OutName(req.originalname, format)
            outPath == TempName("out", t2, r2, format)
            args == AudioArgs(format, inputPath, outPath)
            jb1 == [jb0 EXCEPT !.outName = outName, !.outPath = outPath,
                               !.args = args]
        IN  IF sp = "throw"
            THEN \* catch (err) of line 174
                 LET c0 == Note(Ctx(jb1, staged.fs), "spawnthrow")
                     c1 == unlinkSync(c0, inputPath, "unlinkIn", "in" \in fails)
                     c2 == unlinkSync(c1, outPath, "unlinkOut", "out" \in fails)
                     c3 == Send(c2, Response, AudioFailedResult)
                 IN  [fs |-> c3.fs, threw |-> c3.threw,
                      job |-> [jb1 EXCEPT !.sent = c3.sent, !.hist = c3.hist,
                                          !.fsFails = fails,
                                          !.outcome = "SpawnThrow"]]
            ELSE \* no timer is set in this handler
                 [fs |-> staged.fs, threw |-> FALSE,
                  job |-> [jb1 EXCEPT !.res = Response,
                                      !.listeners = Listeners,
                                      !.ff = IF sp = "ok" THEN "running" ELSE "enoent",
                                      !.hist = Append(@, "spawn")]]

ExtractAudioHandler(jb, f, req, t1, r1, t2, r2, sp, rej, fails) ==
    IF ~req.hasFile
    THEN ExtractAudioNoFile(jb, f)
    ELSE ExtractAudioStaged(jb, f, req, t1, r1, t2, r2, sp, rej, fails)

ExtractAudio(j, Requests, Fails) ==
    /\ ~crashed
    /\ job[j].kind = "none"
    /\ \E req \in Requests, r1 \in Suffixes, r2 \in Suffixes,
          t2 \in now..MaxTime, sp \in SpawnResults, rej \in RejectionResults,
          fails \in Fails :
          LET out == ExtractAudioHandler(job[j], fs, req, now, r1, t2, r2, sp, rej, fails)
          IN  /\ job' = [job EXCEPT ![j] = out.job]
              /\ fs' = out.fs
              /\ crashed' = out.threw
              /\ now' = t2

\* ff.on('close') of /extract-audio (lines 162-173): no try around the read
ExtractAudioClose(jb, f, fails) ==
    LET res == jb.res
        c == Note(Ctx(jb, f), "close")
    IN  IF jb.code # "0"
        THEN [ctx |-> Send(unlinkSync(c, jb.inputPath, "unlinkIn", "in" \in fails), res,
                           AudioErrorResult(jb.code)),
              outcome |-> "ExitNonZero"]
        ELSE IF ~Exists(f, jb.outPath)
        THEN \* fs.readFileSync throws out of the listener
             [ctx |-> [Note(Note(c, "readfail"), "throw") EXCEPT !.threw = TRUE],
              outcome |-> "ReadError"]
        ELSE LET fileData == c.fs[jb.outPath]
                 c1 == readFileSync(c, jb.outPath)
                 c2 == Send(c1, res, AudioResult(jb.format, fileData))
             IN  IF c2.threw
                 THEN [ctx |-> c2, outcome |-> "Completed"]
                 ELSE [ctx |-> unlinkSync(unlinkSync(c2, jb.inputPath, "unlinkIn", "in" \in fails),
                                          jb.outPath, "unlinkOut", "out" \in fails),
                       outcome |-> "Completed"]

\* The 'close' event: emitted once after the child has ended (or failed to
\* spawn) and its stdio streams have closed. An exception leaving the
\* listener is an uncaught exception: the server process dies.
\* 'close' is emitted once the child has ended and its stdio streams have
\* ended: what a listened stream holds is delivered first.
Close(j, Fails) ==
    /\ ~crashed
    /\ job[j].ff = "exited"
    /\ \A s \in job[j].listeners : job[j].pipe[s] = 0
    /\ \E fails \in Fails :
       LET jb == job[j]
           out == IF jb.kind = "transcode" THEN TranscodeClose(jb, fs, fails)
                                           ELSE ExtractAudioClose(jb, fs, fails)
       IN  /\ job' = [job EXCEPT ![j] =
                        [@ EXCEPT !.ff = "closed",
                                  !.fsFails = fails,
                                  !.timeout = IF jb.kind = "transcode"
                                              THEN ClearTimeout(@) ELSE @,
                                  !.sent = out.ctx.sent,
                                  !.fileData = out.ctx.fileData,
                                  !.hist = out.ctx.hist,
                                  !.outcome = out.outcome]]
           /\ fs' = out.ctx.fs
           /\ crashed' = out.ctx.threw
    /\ UNCHANGED now

\* ---- the environment ---------------------------------------------------------
\* The encoder creates or overwrites (-y) its output from the input it reads.
EncoderWrite(j) ==
    /\ ~crashed
    /\ job[j].ff \in {"running", "signalled"}
    /\ job[j].blocked = "none"
    /\ Exists(fs, job[j].inputPath)
    /\ fs' = WriteFile(fs, job[j].outPath,
                       [data |-> fs[job[j].inputPath].data, enc |-> j])
    /\ UNCHANGED <<now, crashed, job>>

\* The encoder writes a chunk to one of its output pipes: the chunk is held by
\* the pipe, or the write blocks the encoder when the pipe is full.
EncoderEmit(j) ==
    /\ ~crashed
    /\ job[j].ff \in {"running", "signalled"}
    /\ job[j].blocked = "none"
    /\ \E s \in Streams :
          job' = [job EXCEPT ![j] =
                    IF job[j].pipe[s] < PipeCap
                    THEN [@ EXCEPT !.pipe[s] = @ + 1]
                    ELSE [@ EXCEPT !.blocked = s]]
    /\ UNCHANGED <<now, fs, crashed>>

\* The 'data' listener of a stream (lines 105 and 160) gets what the pipe
\* holds and logs it; a write blocked on that pipe goes on.
Drain(j) ==
    /\ ~crashed
    /\ \E s \in job[j].listeners :
          /\ job[j].pipe[s] > 0
          /\ job' = [job EXCEPT ![j] =
                       [@ EXCEPT !.pipe[s] = 0,
                                 !.blocked = IF @ = s THEN "none" ELSE @,
                                 !.logged = TRUE]]
    /\ UNCHANGED <<now, fs, crashed>>

\* The encoder ends: with a code of its own, or with no code (null) when the
\* SIGTERM of ff.kill() ends it. It may also run on, handling or ignoring
\* SIGTERM. Blocked in a write it ends only by the signal. Node resumes the
\* streams nobody listens to, dropping what their pipes hold.
EncoderExit(j) ==
    /\ ~crashed
    /\ job[j].ff \in {"running", "signalled"}
    /\ job[j].blocked = "none" \/ job[j].ff = "signalled"
    /\ \E code \in ExitCodes \cup (IF job[j].ff = "signalled" THEN {NullCode} ELSE {}) :
          job' = [job EXCEPT ![j] =
                    [@ EXCEPT !.ff = "exited", !.code = code,
                              !.blocked = "none",
                              !.lost = {s \in Streams \ job[j].listeners :
                                           job[j].pipe[s] > 0},
                              !.pipe = [s \in Streams |->
                                          IF s \in job[j].listeners
                                          THEN job[j].pipe[s] ELSE 0],
                              !.hist = Append(@, "exit")]]
    /\ UNCHANGED <<now, fs, crashed>>

Tick ==
    /\ ~crashed
    /\ now < MaxTime
    /\ now' = now + 1
    /\ UNCHANGED <<fs, crashed, job>>

Init ==
    /\ now = 0
    /\ fs = << >>
    /\ crashed = FALSE
    /\ job = [j \in SoloJobs |-> InitJob]

Next ==
    \/ \E j \in DOMAIN job : Transcode(j, TranscodeRequests, FailSets)
    \/ \E j \in DOMAIN job : ExtractAudio(j, AudioRequests, FailSets)
    \/ \E j \in DOMAIN job : TimeoutCallback(j)
    \/ \E j \in DOMAIN job : OnError(j)
    \/ \E j \in DOMAIN job : Close(j, FailSets)
    \/ \E j \in DOMAIN job : EncoderWrite(j)
    \/ \E j \in DOMAIN job : EncoderExit(j)
    \/ \E j \in DOMAIN job : EncoderEmit(j)
    \/ \E j \in DOMAIN job : Drain(j)
    \/ Tick

\* One request served by the server.
Spec == Init /\ [][Next]_vars

\* The event loop runs every callback that is due: a timer that is armed
\* fires, an emitted 'error' and a 'close' after the child's end are
\* delivered. Nothing obliges the encoder to end, to write, or to die of
\* SIGTERM, nor a request to arrive.
Fairness ==
    \A j \in SoloJobs :
        /\ WF_vars(TimeoutCallback(j))
        /\ WF_vars(OnError(j))
        /\ WF_vars(Close(j, FailSets))
        /\ WF_vars(Drain(j))

FairSpec == Spec /\ Fairness

\* Two requests, in any interleaving of their handlers, callbacks and encoders.
PairInit ==
    /\ now = 0
    /\ fs = << >>
    /\ crashed = FALSE
    /\ job = [j \in PairJobs |-> InitJob]

PairNext ==
    \/ \E j \in DOMAIN job : Transcode(j, PairTranscodeRequests, NoFails)
    \/ \E j \in DOMAIN job : ExtractAudio(j, PairAudioRequests, NoFails)
    \/ \E j \in DOMAIN job : TimeoutCallback(j)
    \/ \E j \in DOMAIN job : OnError(j)
    \/ \E j \in DOMAIN job : Close(j, NoFails)
    \/ \E j \in DOMAIN job : EncoderWrite(j)
    \/ \E j \in DOMAIN job : EncoderExit(j)
    \/ Tick

PairSpec == PairInit /\ [][PairNext]_vars

\* ---- vocabulary of the properties ------------------------------------------
Has(h, ev) == \E i \in 1..Len(h) : h[i] = ev
Count(h, ev) == Cardinality({i \in 1..Len(h) : h[i] = ev})
\* ev1 occurs in h and no ev2 occurs before its first occurrence
Before(h, ev1, ev2) ==
    \E i \in 1..Len(h) : h[i] = ev1 /\ \A k \in 1..(i - 1) : h[k] # ev1 /\ h[k] # ev2
\* The request carried a file: its input was staged.
WithFile(j) == Has(job[j].hist, "stage")
\* The 'close' listener of the job has run.
Closed(j) == job[j].ff = "closed"
\* No callback of the job is left to run.
Finished(j) == Closed(j) \/ job[j].outcome \in {"NoInput", "SpawnThrow", "Rejected"}
\* spawn was called with the argument vector of the job.
SpawnCalled(j) == Has(job[j].hist, "spawn") \/ Has(job[j].hist, "spawnthrow")
IsSuccess(r) == r.status = 200 /\ r.msg = "" /\ r.ctype # TextHtml
IsFailure(r) == r.status # 200 /\ r.msg # "" /\ r.bytes = NoBytes
ExpectedContentType(j) ==
    IF job[j].kind = "transcode" THEN <<"video", "mp4">> ELSE <<"audio", job[j].format>>

\* C1: every request that carries a file eventually gets exactly one result,
\* the converted bytes with a content type or a failure description, never
\* both and never none, whatever the encoder does.
C1_ExactlyOneResult ==
    \A j \in SoloJobs :
        /\ [](WithFile(j) => <>(Len(job[j].sent) = 1))
        /\ [](/\ Len(job[j].sent) <= 1
              /\ \A i \in 1..Len(job[j].sent) :
                    IsSuccess(job[j].sent[i]) # IsFailure(job[j].sent[i]))

\* The encoder ended by itself before the deadline timer fired.
EndedBeforeDeadline(j) == Before(job[j].hist, "exit", "timer")
\* The caller got the timed-out failure and neither temp file is on disk.
TimedOutReported(j) ==
    /\ Len(job[j].sent) = 1
    /\ job[j].sent[1] = TimedOutResult
    /\ ~Exists(fs, job[j].inputPath)
    /\ ~Exists(fs, job[j].outPath)

\* C2: for both job kinds, an encoder that does not end before the deadline is
\* terminated by force once the deadline has elapsed, and the job then reports
\* the timed-out failure with both temp files released.
C2_TimeoutTerminates ==
    \A j \in SoloJobs :
        [](job[j].ff \in {"running", "signalled"}
             => <>(EndedBeforeDeadline(j) \/ TimedOutReported(j)))

\* C3: on the Completed, non-zero exit and TimedOut paths the input temp file
\* is released exactly once; on the Completed path the output temp file is
\* released after its bytes were read, and neither file remains on disk.
C3_InputReleasedOnce ==
    \A j \in DOMAIN job :
        (Closed(j) /\ job[j].outcome \in {"Completed", "ExitNonZero", "TimedOut"})
        => /\ Count(job[j].hist, "unlinkIn") = 1
           /\ job[j].outcome = "Completed"
                => /\ Before(job[j].hist, "read", "unlinkOut")
                   /\ Has(job[j].hist, "unlinkOut")
                   /\ ~Exists(fs, job[j].inputPath)
                   /\ ~Exists(fs, job[j].outPath)

\* C4: when a job ends Failed (non-zero exit) or TimedOut, no output temp file
\* of the job is on disk after the job has finished.
C4_NoOutputLeftOnFailure ==
    \A j \in DOMAIN job :
        (Closed(j) /\ job[j].outcome \in {"ExitNonZero", "TimedOut"})
        => ~Exists(fs, job[j].outPath)

\* C5: when the encoder exits with 0 and reading the output fails, the caller
\* gets a failure result and both temp files are released.
C5_ReadFailureHandled ==
    \A j \in DOMAIN job :
        (Closed(j) /\ job[j].outcome = "ReadError")
        => /\ Len(job[j].sent) = 1
           /\ IsFailure(job[j].sent[1])
           /\ ~Exists(fs, job[j].inputPath)
           /\ ~Exists(fs, job[j].outPath)

\* C6: if the encoder ends before the deadline timer fires, the job is not
\* timed out: timedOut stays false and the outcome is the one of the exit code.
C6_ExitFirstIsNotTimeout ==
    \A j \in DOMAIN job :
        (job[j].kind = "transcode" /\ EndedBeforeDeadline(j))
        => /\ job[j].timedOut = FALSE
           /\ Closed(j) => job[j].outcome # "TimedOut"

\* C7: exit code 0 and a readable output give a success result with exactly
\* the bytes of the output file, the content type of the job kind and the
\* original stem with the new extension as the file name.
C7_SuccessResult ==
    \A j \in DOMAIN job :
        (Closed(j) /\ job[j].code = "0" /\ ~job[j].timedOut /\ Has(job[j].hist, "read"))
        => /\ Len(job[j].sent) = 1
           /\ IsSuccess(job[j].sent[1])
           /\ job[j].sent[1].bytes = job[j].fileData
           /\ job[j].sent[1].ctype = ExpectedContentType(j)
           /\ job[j].sent[1].filename = job[j].outName

\* C8: a non-zero exit code N reaches the caller as a failure result that
\* carries N and no output bytes, for both job kinds.
C8_NonZeroExitReported ==
    \A j \in DOMAIN job :
        (Closed(j) /\ Has(job[j].hist, "exit") /\ job[j].code \in ExitCodes \ {"0"}
           /\ ~job[j].timedOut)
        => /\ Len(job[j].sent) = 1
           /\ IsFailure(job[j].sent[1])
           /\ job[j].sent[1].code = job[j].code

\* The spawn failed: 'error' was emitted, or spawn threw.
SpawnFailed(j) == Has(job[j].hist, "error") \/ Has(job[j].hist, "spawnthrow")

\* C9: a failed spawn is never a timeout or a success: the caller gets a
\* failure result, no output file is read and the input temp file is released.
C9_SpawnFailureReported ==
    \A j \in DOMAIN job :
        /\ SpawnFailed(j) => ~job[j].timedOut /\ ~Has(job[j].hist, "read")
        /\ (SpawnFailed(j) /\ Finished(j))
           => /\ job[j].outcome \notin {"TimedOut", "Completed"}
              /\ Len(job[j].sent) = 1
              /\ IsFailure(job[j].sent[1])
              /\ ~Exists(fs, job[j].inputPath)

\* C10: two jobs of one run never allocate the same temp path: their input
\* paths differ and their output paths differ.
C10_PathsNeverCollide ==
    \A a \in DOMAIN job, b \in DOMAIN job :
        (a # b /\ WithFile(a) /\ WithFile(b))
        => /\ job[a].inputPath # job[b].inputPath
           /\ job[a].outPath # job[b].outPath

\* ---- the argument vectors ----------------------------------------------------
\* The argument that follows the flag in an argument vector.
ArgAfter(args, flag) ==
    LET i == CHOOSE k \in 1..Len(args) : args[k] = Arg(flag) IN args[i + 1]
HasArg(args, a) == \E i \in 1..Len(args) : args[i] = a
\* seq occurs in args as consecutive arguments
HasArgs(args, seq) ==
    \E i \in 0..(Len(args) - Len(seq)) : \A k \in 1..Len(seq) : args[i + k] = Arg(seq[k])
\* The tabulated (height, bitrate) of a selector, 720p for all others.
PresetTable(q) ==
    CASE q = "240p"  -> <<"240", "400k">>
      [] q = "360p"  -> <<"360", "800k">>
      [] q = "480p"  -> <<"480", "1500k">>
      [] q = "720p"  -> <<"720", "3000k">>
      [] q = "1080p" -> <<"1080", "5000k">>
      [] q = "1440p" -> <<"1440", "8000k">>
      [] OTHER       -> <<"720", "3000k">>

\* C11: in a video transcode the height and the video bitrate of the argument
\* vector are the tabulated pair of the selector for the six presets and the
\* 720p pair (720, 3000k) for every other selector, a missing one included.
C11_PresetArguments ==
    \A j \in DOMAIN job :
        (job[j].kind = "transcode" /\ SpawnCalled(j))
        => /\ ArgAfter(job[j].args, "-vf") =
                [s |-> "scale=-2:", v |-> PresetTable(job[j].selector)[1], p |-> NoPath]
           /\ ArgAfter(job[j].args, "-b:v") = Arg(PresetTable(job[j].selector)[2])

\* The flags of a re-encode.
ReencodeFlags == {"-acodec", "-q:a", "-ar", "-ac"}

\* C12: in an audio extraction the argument vector strips the video stream and
\* carries the fixed codec parameters of the target: mp3, libmp3lame with
\* quality 2; wav, pcm_s16le at 44100 Hz with 2 channels; ogg, libvorbis with
\* quality 5; any other target, the stream copy and no re-encode parameter.
C12_AudioArguments ==
    \A j \in DOMAIN job :
        (job[j].kind = "audio" /\ SpawnCalled(j))
        => LET args == job[j].args
               format == job[j].format
           IN  /\ HasArg(args, Arg("-vn"))
               /\ format = "mp3"
                    => HasArgs(args, <<"-acodec", "libmp3lame", "-q:a", "2">>)
               /\ format = "wav"
                    => HasArgs(args, <<"-acodec", "pcm_s16le", "-ar", "44100", "-ac", "2">>)
               /\ format = "ogg"
                    => HasArgs(args, <<"-acodec", "libvorbis", "-q:a", "5">>)
               /\ format \notin {"mp3", "wav", "ogg"}
                    => /\ HasArgs(args, <<"-c:a", "copy">>)
                       /\ \A flag \in ReencodeFlags : ~HasArg(args, Arg(flag))
               /\ format \in {"mp3", "wav", "ogg"} => ~HasArg(args, Arg("copy"))

\* An audio extraction to ogg was spawned with its argument vector.
C12_Witness ==
    \E j \in DOMAIN job :
        /\ job[j].kind = "audio"
        /\ job[j].format = "ogg"
        /\ Has(job[j].hist, "spawn")
        /\ Len(job[j].args) > 0

\* C13: a request without a file is answered with the no-file failure before
\* anything else happens: nothing is staged, no output path is allocated and
\* no encoder is spawned.
C13_NoFileRejectedFirst ==
    \A j \in DOMAIN job :
        (job[j].kind # "none" /\ ~job[j].file)
        => /\ job[j].sent = <<NoFileResult>>
           /\ job[j].hist = <<"send">>
           /\ job[j].inputPath = NoPath
           /\ job[j].outPath = NoPath
           /\ job[j].args = << >>
           /\ job[j].ff = "none"
           /\ job[j].timeout = "none"
           /\ DOMAIN fs = {}

\* A request without a file was handled.
C13_Witness ==
    \E j \in DOMAIN job :
        job[j].kind # "none" /\ ~job[j].file /\ Len(job[j].sent) = 1

\* Every event of evs in h comes after an event of marks.
AllAfter(h, evs, marks) ==
    \A i \in 1..Len(h) :
        h[i] \in evs => \E k \in 1..(i - 1) : h[k] \in marks

\* The encoder process of the job is alive.
EncoderAlive(j) == job[j].ff \in {"running", "signalled"}

\* C14: the stages of a job occur in the order staged, running, outcome,
\* cleaned: spawn comes after the staging of the input, 'close' decides the
\* outcome only after the process has ended or failed to start, releases come
\* only after the outcome is being decided, and while the encoder process is
\* alive nothing is decided, sent or released and the staged input is on disk.
C14_StageOrder ==
    \A j \in DOMAIN job :
        LET h == job[j].hist
        IN  /\ AllAfter(h, {"spawn", "spawnthrow", "reject"}, {"stage"})
            /\ AllAfter(h, {"exit", "error", "timer"}, {"spawn"})
            /\ AllAfter(h, {"close"}, {"exit", "error"})
            /\ AllAfter(h, {"read", "readfail"}, {"close"})
            /\ AllAfter(h, {"unlinkIn", "unlinkOut"}, {"close", "spawnthrow"})
            /\ job[j].outcome \notin {"none", "NoInput"}
                 => \E k \in 1..Len(h) : h[k] \in {"close", "spawnthrow", "reject"}
            /\ EncoderAlive(j)
                 => /\ job[j].outcome = "none"
                    /\ job[j].sent = << >>
                    /\ ~Has(h, "unlinkIn") /\ ~Has(h, "unlinkOut")
                    /\ Exists(fs, job[j].inputPath)

\* A job went through all four stages: staged, spawned, ended, closed with
\* its input released.
C14_Witness ==
    \E j \in DOMAIN job :
        /\ Closed(j)
        /\ Has(job[j].hist, "exit")
        /\ Has(job[j].hist, "unlinkIn")
        /\ job[j].outcome # "none"

\* An exception left the handler body after the input was staged: spawn threw
\* (caught at line 135 or 174) or the output name could not be derived.
RaisedAfterStaging(j) ==
    WithFile(j) /\ (Has(job[j].hist, "spawnthrow") \/ Has(job[j].hist, "reject"))

\* C15: a job whose handler raised an exception after staging the input has
\* released its temp files and has delivered exactly one failure result.
C15_ExceptionAfterStaging ==
    \A j \in DOMAIN job :
        RaisedAfterStaging(j)
        => /\ ~Exists(fs, job[j].inputPath)
           /\ job[j].outPath # NoPath => ~Exists(fs, job[j].outPath)
           /\ Len(job[j].sent) = 1
           /\ IsFailure(job[j].sent[1])

\* The encoder of the job succeeded and the 'close' listener read its output.
SucceededAndRead(j) ==
    Closed(j) /\ job[j].code = "0" /\ ~job[j].timedOut /\ Has(job[j].hist, "read")

\* C16: a failing release never changes the result: a job whose encoder
\* succeeded and whose output was read has delivered its success result with
\* the bytes read although the file system refuses one or both releases, and
\* the catch of a throwing spawn, which releases an output that was never
\* written, still delivers its failure result.
C16_ReleaseFailureSwallowed ==
    \A j \in DOMAIN job :
        /\ (SucceededAndRead(j) /\ job[j].fsFails # {})
             => /\ Len(job[j].sent) = 1
                /\ IsSuccess(job[j].sent[1])
                /\ job[j].sent[1].bytes = job[j].fileData
        /\ Has(job[j].hist, "spawnthrow")
             => /\ Len(job[j].sent) = 1
                /\ IsFailure(job[j].sent[1])

\* The job has staged its input and its 'close' listener has not run yet.
InFlight(j) == WithFile(j) /\ job[j].ff \in {"running", "signalled", "enoent", "exited"}

\* C17: each temp file has one owning job: the staged input of a job in flight
\* is on disk, whatever the other jobs stage or release, and the bytes of a
\* success result were produced by the encoder of the job that sends it.
C17_SingleOwner ==
    \A j \in DOMAIN job :
        /\ InFlight(j) => Exists(fs, job[j].inputPath)
        /\ \A i \in 1..Len(job[j].sent) :
               IsSuccess(job[j].sent[i]) => job[j].sent[i].bytes.enc = j

\* ---- the output streams of the encoder ---------------------------------------
\* The encoder of the job is blocked in a write to stream s.
BlockedOn(j, s) == job[j].blocked = s

\* C18 (as stated): from spawn to close every output stream of the encoder
\* has a 'data' listener, a write of the encoder that blocks on a full pipe
\* goes on later, and nothing the encoder wrote is dropped unread.
C18_AllStreamsDrained ==
    \A j \in SoloJobs :
        /\ [](EncoderAlive(j) => Streams \subseteq job[j].listeners)
        /\ \A s \in Streams : BlockedOn(j, s) ~> ~BlockedOn(j, s)
        /\ [](job[j].lost = {})

\* C18 (amended): from spawn to close the diagnostic stream (stderr) of the
\* encoder has its 'data' listener, attached in the turn of the spawn; a write
\* of the encoder that blocks on the full stderr pipe goes on later; and when
\* 'close' is handled everything written to stderr has been delivered.
C18_DiagnosticsDrained ==
    \A j \in SoloJobs :
        /\ [](EncoderAlive(j) => "stderr" \in job[j].listeners)
        /\ BlockedOn(j, "stderr") ~> ~BlockedOn(j, "stderr")
        /\ [](Closed(j) => job[j].pipe["stderr"] = 0 /\ "stderr" \notin job[j].lost)

\* The encoder wrote diagnostics that the listener logged, and 'close' was
\* handled.
C18_Witness ==
    \E j \in DOMAIN job :
        Closed(j) /\ Has(job[j].hist, "exit") /\ job[j].logged

\* ---- the deadline timer -------------------------------------------------------
\* No event of evs occurs in h after an event of marks.
NoneAfter(h, evs, marks) ==
    \A i \in 1..Len(h), k \in 1..Len(h) :
        (i < k /\ h[i] \in marks) => h[k] \notin evs

\* C19: in a transcode, once 'close' or 'error' has been handled the timer
\* callback never runs (timedOut is not set and kill is not issued
\* afterwards), and the timer of a job that handled them or has finished is
\* not armed.
C19_TimerCancelled ==
    \A j \in DOMAIN job :
        job[j].kind = "transcode"
        => /\ NoneAfter(job[j].hist, {"timer"}, {"close", "error"})
           /\ (Has(job[j].hist, "close") \/ Has(job[j].hist, "error") \/ Finished(j))
                => job[j].timeout # "armed"
           /\ job[j].timedOut => Has(job[j].hist, "timer")

\* A transcode handled 'close' before the deadline, which cancelled the timer.
C19_Witness ==
    \E j \in DOMAIN job :
        /\ job[j].kind = "transcode"
        /\ Has(job[j].hist, "close")
        /\ job[j].timeout = "cleared"
        /\ ~job[j].timedOut

====
